---- MODULE Spec2Model ----
(***************************************************************************)
(* Reflector hook (src/handler.js): the handler invoked on a "command:new" *)
(* event, the detached summary pipeline it spawns, the Generation Client   *)
(* (llmCall) with its fallback chain, and the Archive Writer.              *)
(*                                                                         *)
(* Text is modelled as sequences of one-character strings, so trimming,    *)
(* slug clean-up, the time-derived fallback slug and file names are        *)
(* computed the way the JavaScript computes them.                          *)
(***************************************************************************)
EXTENDS Naturals, Sequences, FiniteSets

\* ------------------------------------------------------------------------
\* Bounds of the model
\* ------------------------------------------------------------------------

\* number of handler invocations (trigger events delivered by the host)
NumInv == 2

\* number of entries of REFLECTOR_FALLBACK_MODELS
MaxFallbacks == 1

\* ------------------------------------------------------------------------
\* Strings
\* ------------------------------------------------------------------------

Whitespace == {" ", "\n", "\t"}

Upper == <<"A","B","C","D","E","F","G","H","I","J","K","L","M",
           "N","O","P","Q","R","S","T","U","V","W","X","Y","Z">>

Lower == <<"a","b","c","d","e","f","g","h","i","j","k","l","m",
           "n","o","p","q","r","s","t","u","v","w","x","y","z">>

Digits == <<"0","1","2","3","4","5","6","7","8","9">>

Range(s) == {s[k] : k \in DOMAIN s}

\* String.prototype.slice(from) / slice(from, to) with 0-based, non-negative
\* arguments
Slice(s, from, to) ==
    LET hi == IF to < Len(s) THEN to ELSE Len(s)
    IN  IF from >= hi THEN <<>> ELSE SubSeq(s, from + 1, hi)

RECURSIVE TrimStart(_)
TrimStart(s) ==
    IF s # <<>> /\ Head(s) \in Whitespace THEN TrimStart(Tail(s)) ELSE s

RECURSIVE TrimEnd(_)
TrimEnd(s) ==
    IF s # <<>> /\ s[Len(s)] \in Whitespace
    THEN TrimEnd(SubSeq(s, 1, Len(s) - 1))
    ELSE s

\* String.prototype.trim
Trim(s) == TrimEnd(TrimStart(s))

\* String.prototype.toLowerCase on one character
LowerChar(c) ==
    IF \E k \in DOMAIN Upper : Upper[k] = c
    THEN Lower[CHOOSE k \in DOMAIN Upper : Upper[k] = c]
    ELSE c

ToLowerCase(s) == [k \in DOMAIN s |-> LowerChar(s[k])]

\* s.startsWith(p) at 1-based position k
MatchAt(s, p, k) ==
    /\ k + Len(p) - 1 <= Len(s)
    /\ \A j \in 1..Len(p) : s[k + j - 1] = p[j]

\* s.replace(/p/g, "") for a literal, non-empty p
RECURSIVE RemoveAll(_, _)
RemoveAll(s, p) ==
    IF s = <<>> THEN <<>>
    ELSE IF MatchAt(s, p, 1) THEN RemoveAll(Slice(s, Len(p), Len(s)), p)
    ELSE <<Head(s)>> \o RemoveAll(Tail(s), p)

\* s.split(sep) for a one-character separator
RECURSIVE Split(_, _)
Split(s, sep) ==
    IF \E k \in DOMAIN s : s[k] = sep
    THEN LET k == CHOOSE k \in DOMAIN s :
                     s[k] = sep /\ \A j \in 1..(k - 1) : s[j] # sep
         IN  <<SubSeq(s, 1, k - 1)>> \o Split(Slice(s, k, Len(s)), sep)
    ELSE <<s>>

\* decimal digits of a natural number (template-literal interpolation of i)
RECURSIVE NumToString(_)
NumToString(n) ==
    IF n < 10 THEN <<Digits[n + 1]>>
    ELSE NumToString(n \div 10) \o <<Digits[(n % 10) + 1]>>

\* ------------------------------------------------------------------------
\* Slug clean-up (handler.js 348-363)
\* ------------------------------------------------------------------------

SlugAlphabet == Range(Lower) \cup Range(Digits) \cup {"-"}

\* .replace(/[^a-z0-9-]/g, "-")
ReplaceNonSlugChars(s) ==
    [k \in DOMAIN s |-> IF s[k] \in SlugAlphabet THEN s[k] ELSE "-"]

\* runs of hyphens are kept as they are
KeepHyphenRuns(s) == s

\* .replace(/-+/g, "-")
RECURSIVE CollapseHyphens(_)
CollapseHyphens(s) ==
    IF Len(s) < 2 THEN s
    ELSE IF s[1] = "-" /\ s[2] = "-" THEN CollapseHyphens(Tail(s))
    ELSE <<Head(s)>> \o CollapseHyphens(Tail(s))

\* .replace(/^-|-$/g, ""): one leading and one trailing hyphen
StripEdgeHyphens(s) ==
    LET a == IF s # <<>> /\ Head(s) = "-" THEN Tail(s) ELSE s
    IN  IF a # <<>> /\ a[Len(a)] = "-" THEN SubSeq(a, 1, Len(a) - 1) ELSE a

MaxSlugLen == 40

MinSlugLen == 3

FallbackSlugLen == 4

\* the backquote character (written as a name: the lexer rejects it in a string)
Backquote == "BACKQUOTE"

\* the literal of .replace(/```/g, "")
CodeFence == <<Backquote, Backquote, Backquote>>

\* x.Method(): a link of a method chain, whose receiver x is evaluated once
Chain(x, Method(_)) == CHOOSE r \in {Method(s) : s \in {x}} : TRUE

\* the clean slug is not cut to 40 characters
cleanSlugUncut(text) ==
    Chain(Chain(Chain(Chain(Chain(Chain(text,
        LAMBDA s : RemoveAll(s, CodeFence)),
        Trim),
        ToLowerCase),
        ReplaceNonSlugChars),
        CollapseHyphens),
        StripEdgeHyphens)

\* slug.replace(/```/g, "").trim().toLowerCase().replace(/[^a-z0-9-]/g, "-")
\*     .replace(/-+/g, "-").replace(/^-|-$/g, "").slice(0, 40)
cleanSlug(text) ==
    Chain(Chain(Chain(Chain(Chain(Chain(Chain(text,
        LAMBDA s : RemoveAll(s, CodeFence)),
        Trim),
        ToLowerCase),
        ReplaceNonSlugChars),
        CollapseHyphens),
        StripEdgeHyphens),
        LAMBDA s : Slice(s, 0, MaxSlugLen))

\* now.toISOString().split("T")[1].split(".")[0].replace(/:/g, "").slice(0, 4)
fallbackSlug(iso) ==
    Chain(Chain(Chain(Chain(iso,
        LAMBDA s : Split(s, "T")[2]),
        LAMBDA s : Split(s, ".")[1]),
        LAMBDA s : RemoveAll(s, <<":">>)),
        LAMBDA s : Slice(s, 0, FallbackSlugLen))

\* new Date().toISOString().split("T")[0]
isoDate(iso) == Split(iso, "T")[1]

\* `${date}-reflector-${slug}.md` and `${date}-reflector-${slug}-${i}.md`
\* (i = 0 stands for the name without a suffix)
fileName(date, slug, i) ==
    date \o <<"-","r","e","f","l","e","c","t","o","r","-">> \o slug
         \o (IF i = 0 THEN <<>> ELSE <<"-">> \o NumToString(i))
         \o <<".", "m", "d">>

\* ------------------------------------------------------------------------
\* Configuration and environment
\* ------------------------------------------------------------------------

\* a candidate model is named by the setting it comes from (n: its position
\* in REFLECTOR_FALLBACK_MODELS, 0 for the two single-valued settings)
summaryModel == [env |-> "REFLECTOR_SUMMARY_MODEL", n |-> 0]

slugModel == [env |-> "REFLECTOR_SLUG_MODEL", n |-> 0]

fallbackModels ==
    [k \in 1..MaxFallbacks |-> [env |-> "REFLECTOR_FALLBACK_MODELS", n |-> k]]

\* the slug call tries the summary model after the fallbacks
modelsSummaryLast(label) ==
    IF label = "summary"
    THEN <<summaryModel>> \o fallbackModels
    ELSE (<<slugModel>> \o fallbackModels) \o <<summaryModel>>

\* const models = [modelStr, ...(fallbackModels || [])] for the two calls of
\* the handler
models(label) ==
    IF label = "summary"
    THEN <<summaryModel>> \o fallbackModels
    ELSE <<slugModel>> \o (<<summaryModel>> \o fallbackModels)

\* if (!transcript || transcript.length < 50)
MinTranscriptChars == 50

\* session files the host may name: whether reading and parsing one raises,
\* and the length of the clean transcript built from it
SessionFiles ==
    [name : {"gone.jsonl"}, throws : {TRUE}, clean : {0}]
    \cup [name : {"null-line.jsonl"}, throws : {TRUE}, clean : {0}]
    \cup [name : {"noise.jsonl"}, throws : {FALSE}, clean : {0}]
    \cup [name : {"short.jsonl"}, throws : {FALSE},
          clean : {MinTranscriptChars - 1}]
    \cup [name : {"chat.jsonl"}, throws : {FALSE}, clean : {MinTranscriptChars}]

SessionFile(name) == CHOOSE f \in SessionFiles : f.name = name

\* the events the host delivers ("" stands for an absent field)
Events ==
    [type : {"message"}, action : {"new"}, cfg : {TRUE},
     previousSessionEntry : {"chat.jsonl"}, sessionEntry : {""}]
    \cup [type : {"command"}, action : {"reset"}, cfg : {TRUE},
          previousSessionEntry : {"chat.jsonl"}, sessionEntry : {""}]
    \cup [type : {"command"}, action : {"new"}, cfg : {FALSE},
          previousSessionEntry : {"chat.jsonl"}, sessionEntry : {""}]
    \cup [type : {"command"}, action : {"new"}, cfg : {TRUE},
          previousSessionEntry : {""}, sessionEntry : {"", "chat.jsonl"}]
    \cup [type : {"command"}, action : {"new"}, cfg : {TRUE},
          previousSessionEntry : {f.name : f \in SessionFiles},
          sessionEntry : {"chat.jsonl"}]

NoEvent == [type |-> "", action |-> "", cfg |-> FALSE,
            previousSessionEntry |-> "", sessionEntry |-> ""]

\* the values new Date().toISOString() takes while the model runs
Instants ==
    << <<"2","0","2","6","-","0","2","-","0","4","T",
         "2","3",":","5","9",":","5","8",".","1","2","3","Z">>,
       <<"2","0","2","6","-","0","2","-","0","5","T",
         "0","0",":","0","0",":","0","1",".","4","5","6","Z">> >>

\* result.payloads?.[0]?.text of a generation call: absent, or a text
NoText == [some |-> FALSE, text |-> <<>>]

Text(s) == [some |-> TRUE, text |-> s]

\* what a generation call may answer to the summary and to the slug prompt
AgentTexts(label) ==
    IF label = "summary"
    THEN {NoText, Text(<<" ", "\n">>),
          Text(<<" ", "#", "#", " ", "O", "k", "\n">>)}
    ELSE {NoText, Text(<<" ", "\n">>),
          Text(<<" ", "A", "b", " ", "c", "!", "\n">>),
          Text(<<Backquote, Backquote, Backquote, "a", "!">>)}

\* a document written earlier by the hook (by = 0)
oldDoc == [by |-> 0, date |-> isoDate(Instants[1]), slug |-> <<"a","b","-","c">>,
           summary |-> <<"O", "l", "d">>]

\* the memory directory the model starts from: it holds that document
initialMemoryDir ==
    [p \in {fileName(oldDoc.date, oldDoc.slug, 0)} |-> oldDoc]

\* ------------------------------------------------------------------------
\* State
\* ------------------------------------------------------------------------

VARIABLES
    clock,          \* index into Instants of the current time
    loaded,         \* _runEmbeddedPiAgent has been set (loadInternals succeeded)
    task,           \* per invocation: the handler's and its pipeline's locals
    memoryDir,      \* <workspace>/memory: file name -> document
    writes,         \* history of the successful fs.writeFile calls
    fn              \* a call of buildCleanTranscript, or of the slug clean-up,
                    \* evaluated on its own: its arguments, locals and result

vars == <<clock, loaded, task, memoryDir, writes, fn>>

Invs == 1..NumInv

idleTask ==
    [pc |-> "idle",
     handler |-> "none",        \* the promise handler(event) returned
     detached |-> "none",       \* the void (async () => {...})() task
     outcome |-> "none",
     event |-> NoEvent,
     sessionFile |-> "",
     transcript |-> 0,          \* transcript.length
     label |-> "",              \* label of the running llmCall
     m |-> 0,                   \* position of the loop variable m in models
     attempts |-> <<>>,         \* candidates the running llmCall has finished
     inFlight |-> FALSE,        \* a _runEmbeddedPiAgent call is pending
     pending |-> {},            \* the _runEmbeddedPiAgent calls not yet settled
     result |-> NoText,
     ret |-> [status |-> "none", value |-> NoText],
     tempDir |-> FALSE,         \* the directory named by tempDir exists
     leaked |-> 0,              \* directories the running llmCall left behind
     summary |-> <<>>,
     slug |-> <<>>,
     date |-> <<>>,
     i |-> 0,
     finalPath |-> <<>>,
     probed |-> 0,              \* Len(writes) when finalPath was found free
     console |-> <<>>]          \* lines logged by this invocation's last step

\* no function is evaluated on its own
noCall == [op |-> "none"]

\* the hook after construction: nothing loaded, no invocation yet
hookInit ==
    /\ clock = 1
    /\ loaded = FALSE
    /\ task = [i \in Invs |-> idleTask]
    /\ memoryDir = initialMemoryDir
    /\ writes = <<>>

Init ==
    /\ hookInit
    /\ fn = noCall

\* ------------------------------------------------------------------------
\* The handler up to the point where it spawns the pipeline (235-289)
\* ------------------------------------------------------------------------

\* console.log / console.warn / console.error (m: the candidate it is about)
log(t, level, msg) ==
    [t EXCEPT !.console = Append(@, [level |-> level, msg |-> msg, m |-> t.m])]

\* every step starts with nothing logged yet
step(t) == [t EXCEPT !.console = <<>>]

\* the locals go out of scope
dropLocals(t) ==
    [idleTask EXCEPT !.handler = t.handler,
                     !.detached = t.detached,
                     !.console = t.console]

\* a `return;` of the handler before the pipeline is spawned
returnFromHandler(t, outcome) ==
    [dropLocals(t) EXCEPT !.pc = "done",
                          !.handler = "fulfilled",
                          !.outcome = outcome]

\* handler(event) is called: 236, then loadInternals() is awaited.
\* Invocations are numbered in the order in which the host calls the handler.
Trigger(i, e) ==
    /\ task[i].pc = "idle"
    /\ i > 1 => task[i - 1].pc # "idle"
    /\ LET t == [step(task[i]) EXCEPT !.handler = "pending", !.event = e]
       IN  task' = [task EXCEPT ![i] =
               IF e.type # "command" \/ e.action # "new"
               THEN returnFromHandler(t, "ignored")
               ELSE [t EXCEPT !.pc = "loadInternals"]]
    /\ UNCHANGED <<clock, loaded, memoryDir, writes, fn>>

\* catch (err) of 240-243
loadFailed(t) ==
    returnFromHandler(
        log(t, "error", "Failed to load openclaw internals"), "load_failed")

\* const sessionEntry = context.previousSessionEntry || context.sessionEntry
sessionFileOf(e) ==
    IF e.previousSessionEntry # "" THEN e.previousSessionEntry
    ELSE e.sessionEntry

\* 245-270, up to the call of buildCleanTranscript
afterLoad(t) ==
    IF ~t.event.cfg
    THEN returnFromHandler(
             log(t, "warn", "No config in event context, skipping."), "no_cfg")
    ELSE IF sessionFileOf(t.event) = ""
    THEN returnFromHandler(
             log(t, "log", "No session file found, skipping."), "no_session")
    ELSE [log(t, "log", "Processing session")
             EXCEPT !.sessionFile = sessionFileOf(t.event),
                    !.event = NoEvent,
                    !.pc = "buildCleanTranscript"]

\* await loadInternals() settles: 41-54 and 238-243. Once the internals
\* are set the call returns at line 42; until then resolving dist/ or the
\* import may fail.
LoadInternalsDone(i) ==
    /\ task[i].pc = "loadInternals"
    /\ \E ok \in (IF loaded THEN {TRUE} ELSE BOOLEAN) :
          IF ok
          THEN /\ loaded' = TRUE
               /\ task' = [task EXCEPT ![i] = afterLoad(step(task[i]))]
          ELSE /\ loaded' = loaded
               /\ task' = [task EXCEPT ![i] = loadFailed(step(task[i]))]
    /\ UNCHANGED <<clock, memoryDir, writes, fn>>

\* catch (err) of 276-279
readFailed(t) ==
    returnFromHandler(
        log(t, "error", "Failed to read session file"), "read_failed")

\* the length test left out: only the empty transcript is skipped
tooShortEmptyOnly(n) == n = 0

\* if (!transcript || transcript.length < 50)
tooShort(n) == n = 0 \/ n < MinTranscriptChars

\* the start of llmCall: 183-186
startLlmCall(t, label) ==
    [t EXCEPT !.label = label,
              !.m = 1,
              !.attempts = <<>>,
              !.ret = [status |-> "none", value |-> NoText],
              !.leaked = 0,
              !.pc = "mkdtemp"]

\* the handler awaits the pipeline instead of detaching it
spawnAwaited(t) ==
    startLlmCall([t EXCEPT !.detached = "running"], "summary")

\* void (async () => {...})() of 289: the task runs up to its first await
\* (fs.mkdtemp of the first summary candidate) and the handler returns
spawn(t) ==
    startLlmCall([t EXCEPT !.handler = "fulfilled", !.detached = "running"],
                 "summary")

\* await buildCleanTranscript(...) settles: 272-289
BuildCleanTranscriptDone(i) ==
    /\ task[i].pc = "buildCleanTranscript"
    /\ LET t == step(task[i])
           f == SessionFile(t.sessionFile)
       IN  task' = [task EXCEPT ![i] =
               IF f.throws THEN readFailed(t)
               ELSE IF tooShort(f.clean)
               THEN returnFromHandler(
                        log(t, "log", "Transcript too short or empty, skipping."),
                        "too_short")
               ELSE spawn([log(t, "log", "Clean transcript")
                              EXCEPT !.transcript = f.clean])]
    /\ UNCHANGED <<clock, loaded, memoryDir, writes, fn>>

\* ------------------------------------------------------------------------
\* llmCall (183-229)
\* ------------------------------------------------------------------------

attempt(t, outcome, text) ==
    [m |-> models(t.label)[t.m], outcome |-> outcome, text |-> text]

\* the scratch directory of the candidate, if it still exists, is left behind
leaveCandidate(t) ==
    [t EXCEPT !.leaked = @ + (IF t.tempDir THEN 1 ELSE 0),
              !.tempDir = FALSE,
              !.inFlight = FALSE,
              !.result = NoText]

\* the for loop of 186 moves on, or falls through to `return null` (228)
nextCandidate(t) ==
    LET u == leaveCandidate(t)
    IN  IF u.m < Len(models(u.label))
        THEN [u EXCEPT !.m = @ + 1, !.pc = "mkdtemp"]
        ELSE [u EXCEPT !.pc = "returned",
                       !.ret = [status |-> "fulfilled", value |-> NoText]]

\* the error leaves llmCall instead of being caught
candidateFailedRethrows(t, why) ==
    [leaveCandidate([t EXCEPT !.attempts = Append(@, attempt(t, why, <<>>))])
       EXCEPT !.pc = "returned",
              !.ret = [status |-> "rejected", value |-> NoText]]

\* catch (err) of 220-225
candidateFailed(t, why) ==
    nextCandidate(
        log([t EXCEPT !.attempts = Append(@, attempt(t, why, <<>>))],
            "warn", "failed with model"))

\* the empty response is not reported
emptyResponseSilent(t) ==
    nextCandidate([t EXCEPT !.attempts = Append(@, attempt(t, "empty", <<>>))])

\* 219: the call returned no text
emptyResponse(t) ==
    nextCandidate(
        log([t EXCEPT !.attempts = Append(@, attempt(t, "empty", <<>>))],
            "warn", "returned empty response"))

\* the text is kept but the loop is not left
succeededKeepsGoing(t, raw) ==
    LET u == leaveCandidate(
                 log([t EXCEPT !.attempts = Append(@, attempt(t, "ok", raw))],
                     "log", "succeeded with model"))
        v == [u EXCEPT !.ret = [status |-> "fulfilled",
                                value |-> Text(Trim(raw))]]
    IN  IF v.m < Len(models(v.label))
        THEN [v EXCEPT !.m = @ + 1, !.pc = "mkdtemp"]
        ELSE [v EXCEPT !.pc = "returned"]

\* 215-218: return text
succeeded(t, raw) ==
    [leaveCandidate(
         log([t EXCEPT !.attempts = Append(@, attempt(t, "ok", raw))],
             "log", "succeeded with model"))
       EXCEPT !.pc = "returned",
              !.ret = [status |-> "fulfilled", value |-> Text(Trim(raw))]]

\* the generation call of candidate m for the llmCall `label`
call(t) == [label |-> t.label, m |-> t.m]

\* _runEmbeddedPiAgent is called but not awaited: the loop goes on with no
\* result while the call is still running
MkdtempDoneNoAwait(i) ==
    /\ task[i].pc = "mkdtemp"
    /\ \E ok \in BOOLEAN :
          task' = [task EXCEPT ![i] =
              IF ok
              THEN [step(task[i]) EXCEPT !.tempDir = TRUE,
                                         !.pending = @ \cup {call(task[i])},
                                         !.pc = "rm"]
              ELSE candidateFailed(step(task[i]), "mkdtemp")]
    /\ UNCHANGED <<clock, loaded, memoryDir, writes, fn>>

\* await fs.mkdtemp(...) settles (193); on success _runEmbeddedPiAgent is
\* called (196)
MkdtempDone(i) ==
    /\ task[i].pc = "mkdtemp"
    /\ \E ok \in BOOLEAN :
          task' = [task EXCEPT ![i] =
              IF ok
              THEN [step(task[i]) EXCEPT !.tempDir = TRUE,
                                         !.inFlight = TRUE,
                                         !.pending = @ \cup {call(task[i])},
                                         !.pc = "runEmbeddedPiAgent"]
              ELSE candidateFailed(step(task[i]), "mkdtemp")]
    /\ UNCHANGED <<clock, loaded, memoryDir, writes, fn>>

\* the generation call raises (an error of the provider, a timeout)
AgentThrows(i) ==
    /\ task[i].pc = "runEmbeddedPiAgent"
    /\ task' = [task EXCEPT ![i] =
           candidateFailed(
               [step(task[i]) EXCEPT !.pending = @ \ {call(task[i])}],
               "error")]
    /\ UNCHANGED <<clock, loaded, memoryDir, writes, fn>>

\* the generation call returns; fs.rm(tempDir) is awaited (212)
AgentReturns(i) ==
    /\ task[i].pc = "runEmbeddedPiAgent"
    /\ \E r \in AgentTexts(task[i].label) :
          task' = [task EXCEPT ![i] =
              [step(task[i]) EXCEPT !.inFlight = FALSE,
                                    !.pending = @ \ {call(task[i])},
                                    !.result = r,
                                    !.pc = "rm"]]
    /\ UNCHANGED <<clock, loaded, memoryDir, writes, fn>>

\* await fs.rm(...).catch(() => {}) settles; 214-219
RmDone(i) ==
    /\ task[i].pc = "rm"
    /\ \E ok \in BOOLEAN :
          LET t == [step(task[i]) EXCEPT !.tempDir = ~ok]
          IN  task' = [task EXCEPT ![i] =
                  IF t.result.some /\ Trim(t.result.text) # <<>>
                  THEN succeeded(t, t.result.text)
                  ELSE emptyResponse(t)]
    /\ UNCHANGED <<clock, loaded, memoryDir, writes, fn>>

\* ------------------------------------------------------------------------
\* The detached pipeline after each llmCall (317-363)
\* ------------------------------------------------------------------------

\* the detached task ends
finishDetached(t, outcome) ==
    [dropLocals(t) EXCEPT !.pc = "done",
                          !.detached = "settled",
                          !.outcome = outcome]

\* no catch around the pipeline: the rejection is unhandled
pipelineErrorUncaught(t) ==
    [dropLocals(t) EXCEPT !.pc = "done",
                          !.detached = "unhandled",
                          !.outcome = "error"]

\* catch (err) of 407-409
pipelineError(t) ==
    finishDetached(
        log(t, "error", "Error during summary generation"), "error")

\* the missing summary is reported but the pipeline goes on to the slug
summaryFailedContinues(t) ==
    startLlmCall(
        [log(t, "error", "All models failed for summary generation.")
            EXCEPT !.outcome = "summary_failed"],
        "slug")

\* 326-329: if (!summary) { console.error(...); return; }
summaryFailed(t) ==
    [finishDetached(
         log(t, "error", "All models failed for summary generation."),
         "summary_failed")
       EXCEPT !.label = t.label]

\* the clean slug is used whatever its length
finalSlugNoFallback(value, iso) ==
    IF value.some THEN cleanSlug(value.text) ELSE <<>>

\* 349-363: the slug made of what the slug call returned, at time iso
finalSlug(value, iso) ==
    LET slug == IF value.some THEN cleanSlug(value.text) ELSE <<>>
    IN  IF slug = <<>> \/ Len(slug) < MinSlugLen
        THEN fallbackSlug(iso)
        ELSE slug

\* await llmCall({... label: "summary" ...}) settles: 317-346
SummaryReturned(i) ==
    /\ task[i].pc = "returned"
    /\ task[i].label = "summary"
    /\ LET t == step(task[i])
       IN  task' = [task EXCEPT ![i] =
               IF t.ret.status = "rejected" THEN pipelineError(t)
               ELSE IF ~t.ret.value.some \/ t.ret.value.text = <<>>
               THEN summaryFailed(t)
               ELSE startLlmCall(
                        [t EXCEPT !.summary = t.ret.value.text], "slug")]
    /\ UNCHANGED <<clock, loaded, memoryDir, writes, fn>>

\* await llmCall({... label: "slug" ...}) settles: 339-369, up to
\* await fs.mkdir(memoryDir)
SlugReturned(i) ==
    /\ task[i].pc = "returned"
    /\ task[i].label = "slug"
    /\ LET t == step(task[i])
       IN  task' = [task EXCEPT ![i] =
               IF t.ret.status = "rejected" THEN pipelineError(t)
               ELSE [t EXCEPT !.slug = finalSlug(t.ret.value, Instants[clock]),
                              !.attempts = <<>>,
                              !.leaked = 0,
                              !.pc = "mkdir"]]
    /\ UNCHANGED <<clock, loaded, memoryDir, writes, fn>>

\* ------------------------------------------------------------------------
\* Archive Writer (365-406)
\* ------------------------------------------------------------------------

\* await fs.mkdir(memoryDir, {recursive: true}) settles; 371-378
MkdirDone(i) ==
    /\ task[i].pc = "mkdir"
    /\ \E ok \in BOOLEAN :
          task' = [task EXCEPT ![i] =
              IF ok
              THEN [step(task[i])
                      EXCEPT !.date = isoDate(Instants[clock]),
                             !.ret = [status |-> "none", value |-> NoText],
                             !.pc = "access"]
              ELSE pipelineError(step(task[i]))]
    /\ UNCHANGED <<clock, loaded, memoryDir, writes, fn>>

\* the path is free: finalPath is set and fs.writeFile is called (395-404)
pathFound(t, path) ==
    [t EXCEPT !.finalPath = path, !.probed = Len(writes), !.pc = "writeFile"]

\* the first name is taken without testing that it is free
AccessDoneNoCheck(i) ==
    /\ task[i].pc = "access"
    /\ LET t == step(task[i])
       IN  task' = [task EXCEPT ![i] =
               pathFound(t, fileName(t.date, t.slug, 0))]
    /\ UNCHANGED <<clock, loaded, memoryDir, writes, fn>>

\* await fs.access(savePath) settles: 376-380 and 391-393
AccessDone(i) ==
    /\ task[i].pc = "access"
    /\ LET t == step(task[i])
           savePath == fileName(t.date, t.slug, 0)
       IN  task' = [task EXCEPT ![i] =
               IF savePath \in DOMAIN memoryDir
               THEN [t EXCEPT !.i = 2, !.pc = "probe"]
               ELSE pathFound(t, savePath)]
    /\ UNCHANGED <<clock, loaded, memoryDir, writes, fn>>

\* the suffixed name is taken without testing that it is free
ProbeDoneNoCheck(i) ==
    /\ task[i].pc = "probe"
    /\ LET t == step(task[i])
       IN  task' = [task EXCEPT ![i] =
               pathFound(t, fileName(t.date, t.slug, t.i))]
    /\ UNCHANGED <<clock, loaded, memoryDir, writes, fn>>

\* the suffix is not advanced when the name is taken
ProbeDoneSameSuffix(i) ==
    /\ task[i].pc = "probe"
    /\ LET t == step(task[i])
           altPath == fileName(t.date, t.slug, t.i)
       IN  task' = [task EXCEPT ![i] =
               IF altPath \in DOMAIN memoryDir
               THEN t
               ELSE pathFound(t, altPath)]
    /\ UNCHANGED <<clock, loaded, memoryDir, writes, fn>>

\* await fs.access(altPath) settles: 381-390
ProbeDone(i) ==
    /\ task[i].pc = "probe"
    /\ LET t == step(task[i])
           altPath == fileName(t.date, t.slug, t.i)
       IN  task' = [task EXCEPT ![i] =
               IF altPath \in DOMAIN memoryDir
               THEN [t EXCEPT !.i = @ + 1]
               ELSE pathFound(t, altPath)]
    /\ UNCHANGED <<clock, loaded, memoryDir, writes, fn>>

\* the document of 395-402
document(i, t) ==
    [by |-> i, date |-> t.date, slug |-> t.slug, summary |-> t.summary]

\* fs.writeFile(finalPath, content): the file is created or replaced
writeFile(dir, path, doc) ==
    [p \in DOMAIN dir \cup {path} |-> IF p = path THEN doc ELSE dir[p]]

\* await fs.writeFile(...) settles: 404-409
WriteFileDone(i) ==
    /\ task[i].pc = "writeFile"
    /\ LET t == step(task[i])
       IN  \E ok \in BOOLEAN :
              IF ok
              THEN /\ memoryDir' =
                          writeFile(memoryDir, t.finalPath, document(i, t))
                   /\ writes' = Append(writes,
                          [by |-> i, path |-> t.finalPath, date |-> t.date,
                           slug |-> t.slug, probed |-> t.probed,
                           before |-> DOMAIN memoryDir])
                   /\ task' = [task EXCEPT ![i] =
                          finishDetached(
                              log(t, "log", "Saved summary"), "saved")]
              ELSE /\ task' = [task EXCEPT ![i] = pipelineError(t)]
                   /\ UNCHANGED <<memoryDir, writes>>
    /\ UNCHANGED <<clock, loaded, fn>>

\* time passes
Tick ==
    /\ clock < Len(Instants)
    /\ clock' = clock + 1
    /\ UNCHANGED <<loaded, task, memoryDir, writes, fn>>

\* ------------------------------------------------------------------------
\* Specifications
\* ------------------------------------------------------------------------

Pipeline(i) ==
    \/ LoadInternalsDone(i)
    \/ BuildCleanTranscriptDone(i)
    \/ MkdtempDone(i)
    \/ AgentThrows(i)
    \/ AgentReturns(i)
    \/ RmDone(i)
    \/ SummaryReturned(i)
    \/ SlugReturned(i)
    \/ MkdirDone(i)
    \/ AccessDone(i)
    \/ ProbeDone(i)
    \/ WriteFileDone(i)

\* events arrive at any time: invocations interleave at their awaits
Next ==
    \/ Tick
    \/ \E i \in Invs : \E e \in Events : Trigger(i, e)
    \/ \E i \in Invs : Pipeline(i)

Spec == Init /\ [][Next]_vars

\* the host delivers an event only when every earlier invocation, its
\* detached pipeline included, has ended
TriggerSerial(i, e) ==
    /\ \A j \in Invs : task[j].pc \in {"idle", "done"}
    /\ Trigger(i, e)

NextSeq ==
    \/ Tick
    \/ \E i \in Invs : \E e \in Events : TriggerSerial(i, e)
    \/ \E i \in Invs : Pipeline(i)

SpecSeq == Init /\ [][NextSeq]_vars

\* every await of an invocation settles in the end: the file operations, and
\* the generation calls, which run under a timeout (timeoutMs, 196-209)
SpecSeqFair == SpecSeq /\ \A i \in Invs : WF_vars(Pipeline(i))

SpecFair == Spec /\ \A i \in Invs : WF_vars(Pipeline(i))

\* ------------------------------------------------------------------------
\* The slug clean-up on its own (348-363)
\* ------------------------------------------------------------------------

\* length of the varied part of a text the slug call returns
SlugCoreLen == 3

\* the characters of the varied part
SlugCoreChars == {"a", "B", "-", " ", "!", Backquote}

RECURSIVE Repeat(_, _)
Repeat(c, n) == IF n = 0 THEN <<>> ELSE <<c>> \o Repeat(c, n - 1)

\* the varied part follows no letters, a few, or enough to reach the cut
SlugPads == {0, MinSlugLen - 1, MaxSlugLen - 1, MaxSlugLen}

\* what llmCall may hand to the clean-up: null, or a trimmed, non-empty text
SlugValues ==
    {NoText} \cup
    {v \in {Text(Repeat("a", n) \o core) :
                n \in SlugPads,
                core \in UNION {[1..k -> SlugCoreChars] : k \in 0..SlugCoreLen}} :
        v.text # <<>> /\ Trim(v.text) = v.text}

hookUnchanged == UNCHANGED <<clock, loaded, task, memoryDir, writes>>

InitSlug ==
    /\ hookInit
    /\ fn \in [op : {"slug"}, pc : {"call"}, value : SlugValues,
               now : DOMAIN Instants, slug : {<<>>}]

\* 349-363 applied to the value of slugRaw at the time Instants[now]
SlugCleanUp ==
    /\ fn.op = "slug"
    /\ fn.pc = "call"
    /\ fn' = [fn EXCEPT !.slug = finalSlug(fn.value, Instants[fn.now]),
                        !.pc = "done"]
    /\ hookUnchanged

NextSlug == SlugCleanUp

SpecSlug == InitSlug /\ [][NextSlug]_vars

\* ------------------------------------------------------------------------
\* Transcript extraction and noise filtering (70-167)
\* ------------------------------------------------------------------------

\* s.slice(-n) for n >= 0: -0 is 0, so slice(-0) is the whole string
SliceLast(s, n) ==
    IF n = 0 THEN s
    ELSE Slice(s, IF n >= Len(s) THEN 0 ELSE Len(s) - n, Len(s))

\* parts.join(sep)
RECURSIVE Join(_, _)
Join(parts, sep) ==
    IF parts = <<>> THEN <<>>
    ELSE IF Len(parts) = 1 THEN parts[1]
    ELSE parts[1] \o sep \o Join(Tail(parts), sep)

\* String.prototype.toUpperCase
UpperChar(c) ==
    IF \E k \in DOMAIN Lower : Lower[k] = c
    THEN Upper[CHOOSE k \in DOMAIN Lower : Lower[k] = c]
    ELSE c

ToUpperCase(s) == [k \in DOMAIN s |-> UpperChar(s[k])]

\* a pattern /^head/, /^head$/ (exact) or /^head.*tail/
Pattern(head, tail, exact) == [head |-> head, tail |-> tail, exact |-> exact]

HeartbeatOk ==
    <<"H", "E", "A", "R", "T", "B", "E", "A", "T", "_", "O", "K">>

NoReply ==
    <<"N", "O", "_", "R", "E", "P", "L", "Y">>

SystemBracket ==
    <<"S", "y", "s", "t", "e", "m", ":", " ", "[">>

NOISE_PATTERNS ==
    << Pattern(HeartbeatOk, <<>>, TRUE),
       Pattern(NoReply, <<>>, TRUE),
       Pattern(<<"R", "e", "a", "d", " ", "H", "E", "A", "R", "T", "B", "E", "A", "T", ".", "m", "d">>,
               <<>>, FALSE),
       Pattern(SystemBracket,
               <<"]", " ", "E", "x", "e", "c", " ", "f", "i", "n", "i", "s", "h", "e", "d">>,
               FALSE),
       Pattern(SystemBracket,
               <<"]", " ", "E", "x", "e", "c", " ", "s", "t", "a", "r", "t", "e", "d">>,
               FALSE),
       Pattern(<<"A", "n", " ", "a", "s", "y", "n", "c", " ", "c", "o", "m", "m", "a", "n", "d", " ", "y", "o", "u", " ", "r", "a", "n", " ", "e", "a", "r", "l", "i", "e", "r">>,
               <<>>, FALSE),
       Pattern(<<"A", "p", "p", "r", "o", "v", "a", "l", " ", "r", "e", "q", "u", "i", "r", "e", "d", " ", "(", "i", "d">>,
               <<>>, FALSE) >>

\* pat.test(s); the dot of .* matches no line break
test(pat, s) ==
    IF pat.exact THEN s = pat.head
    ELSE IF pat.tail = <<>> THEN MatchAt(s, pat.head, 1)
    ELSE /\ MatchAt(s, pat.head, 1)
         /\ \E k \in (Len(pat.head) + 1)..Len(s) :
               /\ MatchAt(s, pat.tail, k)
               /\ \A j \in (Len(pat.head) + 1)..(k - 1) : s[j] # "\n"

\* the test of the patterns is left out
isNoiseNoPatterns(text) ==
    LET trimmed == Trim(text)
    IN  trimmed = <<>> \/ MatchAt(trimmed, <<"/">>, 1)

isNoise(text) ==
    LET trimmed == Trim(text)
    IN  \/ trimmed = <<>>
        \/ MatchAt(trimmed, <<"/">>, 1)
        \/ \E p \in DOMAIN NOISE_PATTERNS : test(NOISE_PATTERNS[p], trimmed)

\* a content field: a string, an array of blocks, or anything else
StringContent(s) == [kind |-> "string", text |-> s, blocks |-> <<>>]

ArrayContent(blocks) == [kind |-> "array", text |-> <<>>, blocks |-> blocks]

NoContent == [kind |-> "other", text |-> <<>>, blocks |-> <<>>]

Block(type, text) == [type |-> type, text |-> text]

extractText(content) ==
    IF content.kind = "string" THEN content.text
    ELSE IF content.kind = "array"
    THEN LET kept == SelectSeq(content.blocks,
                         LAMBDA c : c.type = "text" /\ c.text # <<>>)
         IN  Join([k \in DOMAIN kept |-> kept[k].text], <<"\n">>)
    ELSE <<>>

ToolExec ==
    <<"U+D83D", "U+DEE0", "U+FE0F", " ", "E", "x", "e", "c", ":">>

ToolRead ==
    <<"U+D83D", "U+DEE0", "U+FE0F", " ", "R", "e", "a", "d", ":">>

\* the filter of 144-151 on one line of the text
keepLine(l) ==
    LET t == Trim(l)
    IN  /\ ~MatchAt(t, ToolExec, 1)
        /\ ~MatchAt(t, ToolRead, 1)
        /\ ~MatchAt(t, SystemBracket, 1)

\* 142-153
cleanText(text) ==
    Trim(Join(SelectSeq(Split(text, "\n"), keepLine), <<"\n">>))

TruncationMarker ==
    <<".", ".", ".", "(", "e", "a", "r", "l", "i", "e", "r", " ", "c", "o",
      "n", "v", "e", "r", "s", "a", "t", "i", "o", "n", " ", "t", "r", "u",
      "n", "c", "a", "t", "e", "d", ")", ".", ".", ".", "\n", "\n">>

\* a line of the session file as JSON.parse sees it: not JSON, the JSON
\* value null, or an object with the fields the loop reads
Malformed == [json |-> "malformed"]

NullLine == [json |-> "null"]

\* msg.role: a string, or undefined
Role(name) == [some |-> TRUE, name |-> name]

NoRole == [some |-> FALSE, name |-> <<>>]

NoMessage ==
    [some |-> FALSE, role |-> NoRole, content |-> NoContent,
     tool_calls |-> FALSE]

Message(role, content, tool_calls) ==
    [some |-> TRUE, role |-> role, content |-> content,
     tool_calls |-> tool_calls]

Entry(type, message) == [json |-> "object", type |-> type, message |-> message]

user == Role(<<"u", "s", "e", "r">>)

assistant == Role(<<"a", "s", "s", "i", "s", "t", "a", "n", "t">>)

\* the lines a session file is made of
SessionLines ==
    { Malformed,
      NullLine,
      Entry("session", NoMessage),
      Entry("message", NoMessage),
      Entry("custom", Message(user, StringContent(<<"n", "o">>), FALSE)),
      Entry("message", Message(user, StringContent(<<"h", "i">>), FALSE)),
      Entry("message",
            Message(assistant,
                    ArrayContent(<<Block("text", <<"o", "k">>),
                                   Block("image", <<>>),
                                   Block("text", <<>>),
                                   Block("text", <<"G", "o">>)>>),
                    FALSE)),
      Entry("message", Message(Role(<<"t", "o", "o", "l">>),
                               StringContent(<<"o", "u", "t">>), FALSE)),
      Entry("message", Message(Role(<<"s", "y", "s", "t", "e", "m">>),
                               StringContent(<<"b", "e">>), FALSE)),
      Entry("message", Message(Role(<<"d", "e", "v">>),
                               StringContent(<<"x">>), FALSE)),
      Entry("message", Message(NoRole, StringContent(<<"y">>), FALSE)),
      Entry("message", Message(user, StringContent(HeartbeatOk), FALSE)),
      Entry("message", Message(assistant,
                               StringContent(NoReply \o <<"\n">>), FALSE)),
      Entry("message", Message(user, StringContent(<<" ", "/", "n", "e", "w">>), FALSE)),
      Entry("message", Message(user, StringContent(<<" ", "\n">>), FALSE)),
      Entry("message", Message(user, NoContent, FALSE)),
      Entry("message", Message(assistant, StringContent(<<" ">>), TRUE)),
      Entry("message",
            Message(user,
                    StringContent(SystemBracket \o
                        <<"1", "]", " ", "E", "x", "e", "c", " ", "s", "t", "a", "r", "t", "e", "d">>),
                    FALSE)),
      Entry("message",
            Message(assistant,
                    ArrayContent(<<Block("text", <<" ">>),
                                   Block("text", HeartbeatOk)>>),
                    FALSE)),
      Entry("message",
            Message(assistant,
                    ArrayContent(<<Block("text", HeartbeatOk),
                                   Block("text", NoReply)>>),
                    FALSE)),
      Entry("message",
            Message(assistant,
                    StringContent(ToolExec \o <<" ", "l", "s">>),
                    TRUE)),
      Entry("message",
            Message(assistant,
                    StringContent(ToolRead \o <<" ", "a", ".", "m", "d", "\n", "D", "o", "n", "e">>),
                    TRUE)) }

\* number of lines of a session file
MaxLines == 2

\* values of maxChars: parseInt(env.REFLECTOR_MAX_CHARS || "80000", 10)
MaxCharsValues == {0, 1, 9, 80000}

InitTranscript ==
    /\ hookInit
    /\ fn \in [op : {"transcript"}, pc : {"loop"},
               lines : UNION {[1..n -> SessionLines] : n \in 0..MaxLines},
               maxChars : MaxCharsValues,
               k : {1}, transcript : {<<>>}, joined : {<<>>}, out : {<<>>}]

\* const label = role === "user" ? "USER" : ... : role.toUpperCase()
labelOf(role) ==
    IF role = user THEN <<"U", "S", "E", "R">>
    ELSE IF role = assistant THEN <<"A", "S", "S", "I", "S", "T", "A", "N", "T">>
    ELSE ToUpperCase(role.name)

\* the entry is put in front of the array instead of at its end
pushInFront(transcript, entry) == <<entry>> \o transcript

\* transcript.push(entry)
push(transcript, entry) == Append(transcript, entry)

\* one iteration of the for loop (114-159) on the line `line`
loopBody(f, line) ==
    LET continue == [f EXCEPT !.k = @ + 1]
        throw == [f EXCEPT !.pc = "thrown"]
    IN  IF line.json = "malformed" THEN continue
        ELSE IF line.json = "null" THEN throw
        ELSE IF line.type # "message" \/ ~line.message.some THEN continue
        ELSE LET msg == line.message
                 role == msg.role
                 text == extractText(msg.content)
                 cleanedText == cleanText(text)
             IN  IF role = Role(<<"t", "o", "o", "l">>) THEN continue
                 ELSE IF role = Role(<<"s", "y", "s", "t", "e", "m">>) THEN continue
                 ELSE IF text = <<>> THEN continue
                 ELSE IF role = assistant /\ msg.tool_calls /\ Trim(text) = <<>>
                 THEN continue
                 ELSE IF isNoise(text) THEN continue
                 ELSE IF cleanedText = <<>> THEN continue
                 ELSE IF ~role.some THEN throw
                 ELSE [continue EXCEPT !.transcript =
                           push(@, labelOf(role) \o <<":", " ">> \o cleanedText)]

\* the for loop takes the next line
LoopBody ==
    /\ fn.op = "transcript"
    /\ fn.pc = "loop"
    /\ fn.k <= Len(fn.lines)
    /\ fn' = loopBody(fn, fn.lines[fn.k])
    /\ hookUnchanged

\* 161-166
truncate(joined, maxChars) ==
    IF Len(joined) > maxChars
    THEN TruncationMarker \o SliceLast(joined, maxChars)
    ELSE joined

\* the loop is over: 161-166
JoinAndTruncate ==
    /\ fn.op = "transcript"
    /\ fn.pc = "loop"
    /\ fn.k > Len(fn.lines)
    /\ LET joined == Join(fn.transcript, <<"\n", "\n">>)
       IN  fn' = [fn EXCEPT !.joined = joined,
                            !.out = truncate(joined, fn.maxChars),
                            !.pc = "returned"]
    /\ hookUnchanged

NextTranscript ==
    \/ LoopBody
    \/ JoinAndTruncate

SpecTranscript == InitTranscript /\ [][NextTranscript]_vars

\* ------------------------------------------------------------------------
\* Properties
\* ------------------------------------------------------------------------

Null == [status |-> "fulfilled", value |-> NoText]

PipelinePcs ==
    {"mkdtemp", "runEmbeddedPiAgent", "rm", "returned",
     "mkdir", "access", "probe", "writeFile"}

\* C1: when llmCall returns a text, that text is the trimmed, non-empty
\* text of the last candidate it finished; the candidates it finished are
\* the first k of the list, in list order, each once; all before the k-th
\* failed; and the loop stopped at the k-th (no later candidate was
\* attempted, no call is pending).
LlmCallReturnsFirstSuccess ==
    \A i \in Invs :
        LET t == task[i]
            k == Len(t.attempts)
        IN  (t.pc = "returned" /\ t.ret.value.some) =>
                /\ t.ret.status = "fulfilled"
                /\ k >= 1
                /\ k <= Len(models(t.label))
                /\ t.m = k
                /\ ~t.inFlight
                /\ \A j \in 1..k : t.attempts[j].m = models(t.label)[j]
                /\ \A j \in 1..(k - 1) : t.attempts[j].outcome # "ok"
                /\ t.attempts[k].outcome = "ok"
                /\ t.ret.value.text = Trim(t.attempts[k].text)
                /\ t.ret.value.text # <<>>

\* a call that returned the text of its third candidate after two failures,
\* and trimming changed the text
FallbackCandidateSucceeded ==
    \E i \in Invs :
        /\ task[i].pc = "returned"
        /\ task[i].ret.value.some
        /\ Len(task[i].attempts) = 3
        /\ task[i].ret.value.text # task[i].attempts[3].text

\* C2: when llmCall has finished every candidate of its list and each one
\* failed (scratch directory not created, call raised, or empty text), it
\* returns null; and llmCall never ends by raising.
AllCandidatesFailReturnsNull ==
    \A i \in Invs :
        LET t == task[i]
        IN  t.pc = "returned" =>
                /\ t.ret.status = "fulfilled"
                /\ ( ( /\ Len(t.attempts) = Len(models(t.label))
                       /\ \A j \in DOMAIN t.attempts :
                             /\ t.attempts[j].m = models(t.label)[j]
                             /\ t.attempts[j].outcome
                                    \in {"mkdtemp", "error", "empty"} )
                     => t.ret = Null )

\* a call that returned null after one candidate of each kind of failure
EveryKindOfFailureReturnedNull ==
    \E i \in Invs :
        /\ task[i].pc = "returned"
        /\ task[i].ret = Null
        /\ {task[i].attempts[j].outcome : j \in DOMAIN task[i].attempts}
               = {"mkdtemp", "error", "empty"}

\* C3: an invocation whose summary stage obtained no text has ended, with
\* the failure logged as an error; it never started the slug call, holds no
\* pending call, and no document in the memory directory and no write is
\* its own.
SummaryFailureTerminates ==
    \A i \in Invs :
        LET t == task[i]
        IN  t.outcome = "summary_failed" =>
                /\ t.pc = "done"
                /\ t.detached = "settled"
                /\ t.label = "summary"
                /\ ~t.inFlight
                /\ \E n \in DOMAIN t.console : t.console[n].level = "error"
                /\ \A p \in DOMAIN memoryDir : memoryDir[p].by # i
                /\ \A n \in DOMAIN writes : writes[n].by # i

\* the summary stage failed in one invocation and the memory directory is
\* as it was
SummaryFailed ==
    \E i \in Invs :
        /\ task[i].outcome = "summary_failed"
        /\ memoryDir = initialMemoryDir

\* the four characters HHMM of an ISO time stamp
hhmm(iso) == <<iso[12], iso[13], iso[15], iso[16]>>

\* C4: the step that takes the slug call's result always goes on to the
\* Archive Writer (fs.mkdir); when the call returned null or a text whose
\* clean form is shorter than 3 characters, the slug it goes on with is the
\* 4-character HHMM token of the current time.
SlugFailureIsNonFatal ==
    [][\A i \in Invs :
          ( /\ task[i].pc = "returned"
            /\ task[i].label = "slug"
            /\ task'[i] # task[i] )
          => /\ task'[i].pc = "mkdir"
             /\ task'[i].summary = task[i].summary
             /\ ( ( \/ ~task[i].ret.value.some
                    \/ Len(cleanSlug(task[i].ret.value.text)) < MinSlugLen )
                  => /\ task'[i].slug = hhmm(Instants[clock])
                     /\ Len(task'[i].slug) = FallbackSlugLen )]_vars

\* a document was written under the time-derived slug
DocumentWrittenWithFallbackSlug ==
    \E n \in DOMAIN writes :
        /\ \E c \in DOMAIN Instants : writes[n].slug = hhmm(Instants[c])
        /\ writes[n].path \in DOMAIN memoryDir

\* C5: whenever the detached pipeline of an invocation exists (it is at
\* any of its steps, a generation call is pending, or it has ended), the
\* promise the handler returned is already fulfilled: the handler never
\* waits for a generation call.
HandlerNeverAwaitsGeneration ==
    \A i \in Invs :
        LET t == task[i]
        IN  (t.pc \in PipelinePcs \/ t.inFlight \/ t.detached # "none")
                => t.handler = "fulfilled"

\* a generation call is pending and the handler has returned
CallPendingAfterHandlerReturned ==
    \E i \in Invs :
        /\ task[i].inFlight
        /\ task[i].label = "slug"
        /\ task[i].handler = "fulfilled"

\* C6: the promise the handler returned is never rejected and the detached
\* task never ends with an unhandled error; an invocation that has ended,
\* whatever failed in it, has a fulfilled handler promise and a detached
\* task that either was never spawned or has settled.
NoFailurePropagates ==
    \A i \in Invs :
        LET t == task[i]
        IN  /\ t.handler # "rejected"
            /\ t.detached # "unhandled"
            /\ t.pc = "done" =>
                   /\ t.handler = "fulfilled"
                   /\ t.detached \in {"none", "settled"}

\* one invocation failed while loading or reading, the other in the
\* Archive Writer (fs.mkdir or fs.writeFile raised), and both ended quietly
FailuresWereSwallowed ==
    \E i, j \in Invs :
        /\ task[i].outcome \in {"load_failed", "read_failed"}
        /\ task[j].outcome = "error"
        /\ task[j].detached = "settled"

\* C7: while the detached pipeline of an invocation runs (so whenever a
\* generation call is pending or a file is being written) the invocation
\* has a session file, reading it did not fail, and the transcript built
\* from it has at least 50 characters; an invocation that ended for want
\* of a session file or of a long enough transcript never spawned the
\* pipeline, has no scratch directory and wrote nothing.
GenerationOnlyWithTranscript ==
    \A i \in Invs :
        LET t == task[i]
        IN  /\ (t.detached = "running" \/ t.inFlight \/ t.pc \in PipelinePcs) =>
                   /\ t.sessionFile # ""
                   /\ ~SessionFile(t.sessionFile).throws
                   /\ t.transcript = SessionFile(t.sessionFile).clean
                   /\ t.transcript >= MinTranscriptChars
            /\ t.outcome \in {"no_session", "too_short"} =>
                   /\ t.pc = "done"
                   /\ t.detached = "none"
                   /\ ~t.tempDir
                   /\ t.leaked = 0
                   /\ \A n \in DOMAIN writes : writes[n].by # i
                   /\ \A p \in DOMAIN memoryDir : memoryDir[p].by # i

\* one invocation was dropped for its short transcript and another has a
\* generation call pending on a transcript of exactly 50 characters
ShortSkippedAndMinimalAccepted ==
    \E i, j \in Invs :
        /\ task[i].outcome = "too_short"
        /\ task[j].inFlight
        /\ task[j].transcript = MinTranscriptChars

\* the names `${date}-reflector-${slug}-${k}.md`, k = 2.., that are taken
\* in a directory listing, up to the first free one
firstFreeSuffix(date, slug, taken) ==
    CHOOSE k \in 2..(Cardinality(taken) + 2) :
        /\ fileName(date, slug, k) \notin taken
        /\ \A j \in 2..(k - 1) : fileName(date, slug, j) \in taken

\* C8: when invocations do not overlap, every write goes to
\* <date>-reflector-<slug>.md if no file of that name existed, and
\* otherwise to the name with the smallest suffix -k, k >= 2, that did not
\* exist; the path written did not exist before the write, the written
\* paths are pairwise distinct, and every document once written (and the
\* document found at the start) is still in place unchanged.
SequentialWritesTakeFirstFreeName ==
    /\ \A n \in DOMAIN writes :
          LET w == writes[n]
          IN  /\ w.path =
                     IF fileName(w.date, w.slug, 0) \notin w.before
                     THEN fileName(w.date, w.slug, 0)
                     ELSE fileName(w.date, w.slug,
                                   firstFreeSuffix(w.date, w.slug, w.before))
              /\ w.path \notin w.before
              /\ w.path \in DOMAIN memoryDir
              /\ memoryDir[w.path].by = w.by
              /\ \A k \in DOMAIN writes : k # n => writes[k].path # w.path
    /\ \A p \in DOMAIN initialMemoryDir :
          p \in DOMAIN memoryDir /\ memoryDir[p] = initialMemoryDir[p]

\* with the first document of that date and slug in place, the next two
\* were written with the suffixes -2 and -3
SecondAndThirdDocumentSuffixed ==
    /\ Len(writes) = 2
    /\ writes[1].path = fileName(oldDoc.date, oldDoc.slug, 2)
    /\ writes[2].path = fileName(oldDoc.date, oldDoc.slug, 3)
    /\ writes[1].by # writes[2].by

\* C9 as stated: under every interleaving, no write targets a path that
\* already holds a document.
NoWriteTargetsExistingDocument ==
    \A n \in DOMAIN writes : writes[n].path \notin writes[n].before

\* C9 as amended: every invocation writes at most once; the path it writes
\* was free when the invocation probed it (not in the directory at the
\* start and not written until then), so a write replaces a document only
\* if another invocation created it between the probe and the write; the
\* document found at the start is never replaced.
WriteReplacesOnlyRacingDocument ==
    /\ \A n \in DOMAIN writes :
          LET w == writes[n]
          IN  /\ \A k \in DOMAIN writes : writes[k].by = w.by => k = n
              /\ w.probed < n
              /\ w.path \notin DOMAIN initialMemoryDir
              /\ \A k \in 1..w.probed : writes[k].path # w.path
              /\ w.path \in w.before =>
                     \E k \in (w.probed + 1)..(n - 1) :
                         /\ writes[k].path = w.path
                         /\ writes[k].by # w.by
    /\ \A p \in DOMAIN initialMemoryDir :
          p \in DOMAIN memoryDir /\ memoryDir[p] = initialMemoryDir[p]

\* two overlapping invocations wrote the same path: the second write
\* replaced the first document
RacingWriteReplacedDocument ==
    \E n \in DOMAIN writes :
        /\ writes[n].path \in writes[n].before
        /\ memoryDir[writes[n].path].by = writes[n].by

\* C10 as stated: when llmCall turns to its next candidate and when it has
\* returned, no scratch directory it created exists any more.
ScratchRemovedAfterEveryCandidate ==
    \A i \in Invs :
        task[i].pc \in {"mkdtemp", "returned"} =>
            /\ ~task[i].tempDir
            /\ task[i].leaked = 0

\* C11: whatever the slug call returned (a text or nothing), the final slug
\* is made of lowercase letters, digits and hyphens only, and is at least 3
\* and at most 40 characters long.
FinalSlugWellFormed ==
    (fn.op = "slug" /\ fn.pc = "done") =>
        /\ \A k \in DOMAIN fn.slug :
              \/ \E j \in DOMAIN Lower : fn.slug[k] = Lower[j]
              \/ \E j \in DOMAIN Digits : fn.slug[k] = Digits[j]
              \/ fn.slug[k] = "-"
        /\ Len(fn.slug) >= 3
        /\ Len(fn.slug) <= 40

\* a returned text of more than 40 characters became a slug of 40
LongTextCutToForty ==
    /\ fn.op = "slug"
    /\ fn.pc = "done"
    /\ fn.value.some
    /\ Len(fn.value.text) > 40
    /\ Len(fn.slug) = 40
    /\ \E k \in DOMAIN fn.value.text : fn.value.text[k] \notin SlugAlphabet

\* C12: when the joined text is longer than maxChars the result is the
\* truncation marker followed by exactly the last maxChars characters of the
\* joined text; otherwise the result is the joined text unchanged.
TruncationKeepsLastMaxChars ==
    (fn.op = "transcript" /\ fn.pc = "returned") =>
        IF Len(fn.joined) > fn.maxChars
        THEN fn.out = TruncationMarker \o
                      SubSeq(fn.joined, Len(fn.joined) - fn.maxChars + 1,
                             Len(fn.joined))
        ELSE fn.out = fn.joined

\* a heartbeat acknowledgement, a no-reply marker, a slash command, or an
\* empty or whitespace-only string
NoiseText(s) ==
    LET t == Trim(s)
    IN  \/ t = <<>>
        \/ t = HeartbeatOk
        \/ t = NoReply
        \/ (t # <<>> /\ t[1] = "/")

MessageRecord(line) ==
    line.json = "object" /\ line.type = "message" /\ line.message.some

OnlyNoise(lines) ==
    \A k \in DOMAIN lines :
        MessageRecord(lines[k]) =>
            NoiseText(extractText(lines[k].message.content))

\* C13: when the text of every message record of the input is noise (a
\* heartbeat acknowledgement, a no-reply marker, a slash command, an empty or
\* whitespace-only string), in any number and order, no entry is collected and
\* the transcript returned is empty.
NoiseOnlyGivesEmptyTranscript ==
    (fn.op = "transcript" /\ OnlyNoise(fn.lines)) =>
        /\ fn.transcript = <<>>
        /\ fn.pc = "returned" => (fn.joined = <<>> /\ fn.out = <<>>)

\* a heartbeat acknowledgement followed by a slash command gave nothing
HeartbeatAndSlashCommandDropped ==
    /\ fn.op = "transcript"
    /\ fn.pc = "returned"
    /\ Len(fn.lines) >= 2
    /\ \A k \in DOMAIN fn.lines : MessageRecord(fn.lines[k])
    /\ OnlyNoise(fn.lines)
    /\ Trim(extractText(fn.lines[1].message.content)) = HeartbeatOk
    /\ MatchAt(Trim(extractText(fn.lines[2].message.content)), <<"/">>, 1)
    /\ fn.out = <<>>

\* C14: within one invocation the generation calls are strictly sequential:
\* at most one call is in flight, a call is the call of the candidate the
\* loop is at and starts only when every earlier candidate of that llmCall
\* has completed or failed, and a slug call is in flight only after the
\* summary stage has returned a non-empty text.
GenerationCallsSequential ==
    \A i \in Invs :
        LET t == task[i]
        IN  /\ Cardinality(t.pending) <= 1
            /\ \A c \in t.pending :
                  /\ c.label = t.label
                  /\ c.m = t.m
                  /\ Len(t.attempts) = c.m - 1
                  /\ c.label \in {"summary", "slug"}
                  /\ c.label = "slug" => Trim(t.summary) # <<>>

\* the call of the second slug candidate is in flight
SecondSlugCandidateInFlight ==
    \E i \in Invs :
        /\ task[i].pending = {[label |-> "slug", m |-> 2]}
        /\ Len(task[i].attempts) = 1
        /\ task[i].summary # <<>>

\* the setting the j-th candidate of a stage comes from
Configured(env, n) == [env |-> env, n |-> n]

CandidateWarnings(console) ==
    {k \in DOMAIN console :
        /\ console[k].level = "warn"
        /\ console[k].msg \in {"failed with model", "returned empty response"}}

\* C16: within one llmCall each entry of the candidate list is attempted at
\* most once, and a candidate that fails (it raises, or returns no text)
\* produces exactly one warning, logged in the step that ends the candidate,
\* before the next candidate is attempted; no other step of the invocation
\* warns about a candidate.
EachCandidateOnceOneWarningPerFailure ==
    [][\A i \in Invs :
          LET t == task[i]
              u == task'[i]
              n == Len(u.attempts)
              failedNow == /\ n = Len(t.attempts) + 1
                           /\ u.attempts[n].outcome # "ok"
          IN  u # t =>
                /\ \A j, k \in DOMAIN u.attempts :
                      j # k => u.attempts[j].m # u.attempts[k].m
                /\ n > Len(t.attempts) => n = Len(t.attempts) + 1
                /\ failedNow =>
                      /\ Cardinality(CandidateWarnings(u.console)) = 1
                      /\ \A k \in CandidateWarnings(u.console) :
                            u.console[k].m = n
                      /\ u.pending = {}
                      /\ u.pc \in {"mkdtemp", "returned"}
                /\ ~failedNow => CandidateWarnings(u.console) = {}
      ]_vars

\* the first candidate returned no text: one warning about it, and the loop
\* is at the second candidate
EmptyResponseWarnedOnce ==
    \E i \in Invs :
        /\ task[i].pc = "mkdtemp"
        /\ task[i].m = 2
        /\ task[i].attempts[1].outcome = "empty"
        /\ task[i].console =
              <<[level |-> "warn", msg |-> "returned empty response", m |-> 1]>>

\* a record that survives filtering: a message record whose role is neither
\* tool nor system, whose text is not noise and is not made of tool lines only
Survives(line) ==
    /\ MessageRecord(line)
    /\ line.message.role.name \notin {<<"t", "o", "o", "l">>,
                                       <<"s", "y", "s", "t", "e", "m">>}
    /\ ~isNoise(extractText(line.message.content))
    /\ cleanText(extractText(line.message.content)) # <<>>

\* C17: before truncation the transcript holds exactly one labeled entry per
\* record that survives filtering, in the order of the records; records of
\* another type, records of role tool or system, malformed lines and noise
\* records contribute no entry.
OneEntryPerSurvivingRecord ==
    (fn.op = "transcript" /\ fn.pc \in {"loop", "returned"}) =>
        LET survivors == SelectSeq(SubSeq(fn.lines, 1, fn.k - 1), Survives)
        IN  /\ Len(fn.transcript) = Len(survivors)
            /\ \A j \in DOMAIN survivors :
                  fn.transcript[j] =
                      ToUpperCase(survivors[j].message.role.name)
                          \o <<":", " ">>
                          \o cleanText(extractText(
                                 survivors[j].message.content))
            /\ fn.pc = "returned" =>
                  fn.joined = Join(fn.transcript, <<"\n", "\n">>)

\* a user message followed by an assistant message gave two entries, the
\* user's first
TwoSurvivorsKeptInOrder ==
    /\ fn.op = "transcript"
    /\ fn.pc = "returned"
    /\ Len(fn.lines) = 2
    /\ Survives(fn.lines[1])
    /\ Survives(fn.lines[2])
    /\ fn.lines[1].message.role = user
    /\ fn.lines[2].message.role = assistant
    /\ Len(fn.transcript) = 2
    /\ MatchAt(fn.transcript[1], <<"U", "S", "E", "R", ":", " ">>, 1)

\* C18, as stated: for every text the slug stage returns, the post-processed
\* slug has no leading hyphen, no trailing hyphen and no two consecutive
\* hyphens, also when the cleaned text is longer than 40 characters and is
\* cut to 40.
SlugHyphensOnlySeparate ==
    (fn.op = "slug" /\ fn.pc = "done" /\ fn.value.some) =>
        /\ fn.slug[1] # "-"
        /\ fn.slug[Len(fn.slug)] # "-"
        /\ \A k \in 1..(Len(fn.slug) - 1) :
              ~(fn.slug[k] = "-" /\ fn.slug[k + 1] = "-")

\* C18, amended: the post-processed slug has no leading hyphen and no two
\* consecutive hyphens, and it has no trailing hyphen unless the cleaned text
\* was longer than 40 characters and was cut to 40: the cut comes after the
\* hyphens at the ends are removed, so the slug of 40 characters may end
\* with a hyphen.
SlugHyphensOnlySeparateUnlessCut ==
    (fn.op = "slug" /\ fn.pc = "done" /\ fn.value.some) =>
        /\ fn.slug[1] # "-"
        /\ \A k \in 1..(Len(fn.slug) - 1) :
              ~(fn.slug[k] = "-" /\ fn.slug[k + 1] = "-")
        /\ fn.slug[Len(fn.slug)] = "-" =>
              (Len(fn.slug) = 40 /\ Len(fn.value.text) > 40)

\* a text of 39 letters, a hyphen and more became a slug of 40 characters
\* that ends with the hyphen
CutSlugEndsWithHyphen ==
    /\ fn.op = "slug"
    /\ fn.pc = "done"
    /\ fn.value.some
    /\ Len(fn.value.text) > 40
    /\ Len(fn.slug) = 40
    /\ fn.slug[40] = "-"
    /\ fn.slug[39] # "-"

\* the largest suffix the probing may try. The source has no such maximum
\* (while (true), 379-389); the smallest value is taken here, and any other
\* value is passed in the same way in a directory that holds that many
\* documents of one date and slug.
MaxSuffix == 2

\* C19: the suffix probing is a bounded loop: no invocation probes, or
\* writes to, a suffix beyond the explicit maximum; a name taken at the
\* maximum ends the pipeline with a failure instead of another probe.
SuffixProbingBounded ==
    \A i \in Invs :
        task[i].pc \in {"probe", "writeFile"} => task[i].i <= MaxSuffix

\* the documents invocation i has written
WritesBy(i) == {k \in DOMAIN writes : writes[k].by = i}

ErrorLogged(t) == \E k \in DOMAIN t.console : t.console[k].level = "error"

\* C20: every detached pipeline that is started ends, and it ends in one of
\* two ways: exactly one document written by the invocation, or a failure
\* logged and nothing written; an invocation never writes more than one
\* document.
PipelineEndsSavedOrFailed ==
    /\ \A i \in Invs :
          (task[i].detached = "running") ~> (task[i].detached = "settled")
    /\ [](\A i \in Invs :
            /\ Cardinality(WritesBy(i)) <= 1
            /\ task[i].detached \in {"none", "running", "settled"}
            /\ task[i].detached = "running" => WritesBy(i) = {}
            /\ task[i].detached = "settled" =>
                  /\ task[i].pc = "done"
                  /\ \/ /\ task[i].outcome = "saved"
                        /\ Cardinality(WritesBy(i)) = 1
                     \/ /\ task[i].outcome \in {"summary_failed", "error"}
                        /\ ErrorLogged(task[i])
                        /\ WritesBy(i) = {})

\* one pipeline has ended with its document written, another with a failure
\* logged and nothing written
OneSavedOneFailed ==
    \E i, j \in Invs :
        /\ task[i].detached = "settled"
        /\ task[i].outcome = "saved"
        /\ Cardinality(WritesBy(i)) = 1
        /\ task[j].detached = "settled"
        /\ task[j].outcome = "summary_failed"
        /\ ErrorLogged(task[j])
        /\ WritesBy(j) = {}

====
